---- MODULE Spec2Model ----
(***************************************************************************)
(* Model of streamlit_app.py: the cached YouTube fetch                      *)
(* (fetch_popular_videos), the multi-region loop of main and the sort of    *)
(* display_videos.                                                          *)
(*                                                                          *)
(* Python dicts are functions whose DOMAIN is the set of keys present, so   *)
(* that d.get(k, default) and the truthiness of a dict are modelled as the  *)
(* code computes them.  String-encoded counts are sequences of characters.  *)
(* publishedAt (an ISO-8601 string, ordered lexicographically) is modelled  *)
(* by its rank in that order, 0 standing for the empty string.              *)
(***************************************************************************)
EXTENDS Integers, Sequences, FiniteSets, TLC

VARIABLES
    API_KEY,             \* module global API_KEY ("" when not configured)
    now,                 \* wall clock, seconds (time.time())
    refresh_ts,          \* st.session_state["_refresh_ts"]
    search_query,        \* value of the search text input
    selected_countries,  \* value of the country multiselect
    sort_by,             \* st.session_state["sort_by"]
    cache,               \* entries of st.cache_data for fetch_popular_videos
    pc,                  \* position of the script run: idle / start / loop
    idx,                 \* position of main's for loop in selected_countries
    all_videos,          \* main's local all_videos
    stats_data,          \* main's local stats_data
    sorted_videos,       \* display_videos' local sorted_videos
    messages,            \* st.error / st.warning messages of the current run
    runCalls,            \* history: HTTP requests issued during the current run
    lastCall,            \* history: the latest call of the cached fetch
    hist,                \* history: per cache key, what earlier calls did
    runs,                \* history: number of script runs started so far
    fIn,                 \* inputs of a direct call of fetch_popular_videos
    fOut                 \* its result

vars == <<API_KEY, now, refresh_ts, search_query, selected_countries, sort_by,
          cache, pc, idx, all_videos, stats_data, sorted_videos, messages,
          runCalls, lastCall, hist, runs, fIn, fOut>>

appVars == <<API_KEY, now, refresh_ts, search_query, selected_countries,
             cache, pc, idx, all_videos, stats_data, sorted_videos, messages,
             runCalls, lastCall, hist, runs>>

-----------------------------------------------------------------------------
(* Bounds and program constants *)

TTL == 300
MAX_RESULTS == 10
HTTP_OK == 200

TickStep == 150
MaxTime == 600
MaxItems == 2
MaxRuns == 3

-----------------------------------------------------------------------------
(* Python helpers *)

EmptyDict == [k \in {} |-> 0]

Get(d, k, default) == IF k \in DOMAIN d THEN d[k] ELSE default

Truthy(d) == DOMAIN d # {}

DigitOf == ("0" :> 0) @@ ("1" :> 1) @@ ("2" :> 2) @@ ("3" :> 3) @@ ("4" :> 4) @@
           ("5" :> 5) @@ ("6" :> 6) @@ ("7" :> 7) @@ ("8" :> 8) @@ ("9" :> 9)

RECURSIVE DigitsValue(_, _)
DigitsValue(s, acc) ==
    IF s = <<>> THEN acc
    ELSE DigitsValue(Tail(s), 10 * acc + DigitOf[Head(s)])

AllDigits(s) == s # <<>> /\ \A i \in 1..Len(s) : s[i] \in DOMAIN DigitOf

\* int(x) for a string x: an optional sign and at least one decimal digit;
\* anything else raises ValueError.
PyInt(s) ==
    IF AllDigits(s) THEN [ok |-> TRUE, val |-> DigitsValue(s, 0)]
    ELSE IF s # <<>> /\ Head(s) = "-" /\ AllDigits(Tail(s))
         THEN [ok |-> TRUE, val |-> 0 - DigitsValue(Tail(s), 0)]
    ELSE IF s # <<>> /\ Head(s) = "+" /\ AllDigits(Tail(s))
         THEN [ok |-> TRUE, val |-> DigitsValue(Tail(s), 0)]
    ELSE [ok |-> FALSE, val |-> 0]

\* int(stats.get(k, 0)): the default 0 is already an integer.
CountOf(stats, k) ==
    IF k \in DOMAIN stats THEN PyInt(stats[k]) ELSE [ok |-> TRUE, val |-> 0]

\* (thumbs.get(size) or {}).get("url")
ThumbUrlOf(thumbs, size) == Get(Get(thumbs, size, EmptyDict), "url", "")

thumb_url(thumbs) ==
    IF ThumbUrlOf(thumbs, "high") # "" THEN ThumbUrlOf(thumbs, "high")
    ELSE IF ThumbUrlOf(thumbs, "medium") # "" THEN ThumbUrlOf(thumbs, "medium")
    ELSE IF ThumbUrlOf(thumbs, "default") # "" THEN ThumbUrlOf(thumbs, "default")
    ELSE ""

-----------------------------------------------------------------------------
(* fetch_popular_videos, the undecorated function body *)

InitialStatsSummary ==
    [total_views |-> 0, total_likes |-> 0, total_comments |-> 0, video_count |-> 0]

\* One pass of the for loop over data.get("items", []).
NormaliseItem(item, region, views, likes, comments) ==
    [id |-> Get(item, "id", "None"),
     title |-> Get(Get(item, "snippet", EmptyDict), "title", "(no title)"),
     channel |-> Get(Get(item, "snippet", EmptyDict), "channelTitle", "(no channel info)"),
     views |-> views,
     likes |-> likes,
     comments |-> comments,
     thumbnail |-> thumb_url(Get(Get(item, "snippet", EmptyDict), "thumbnails", EmptyDict)),
     publishedAt |-> Get(Get(item, "snippet", EmptyDict), "publishedAt", 0),
     region |-> region]

\* Mutant: the like count is added to the view total.
AccumulateStats_mixed(summary, views, likes, comments) ==
    [total_views |-> summary.total_views + likes,
     total_likes |-> summary.total_likes + likes,
     total_comments |-> summary.total_comments + comments,
     video_count |-> summary.video_count + 1]


AccumulateStats(summary, views, likes, comments) ==
    [total_views |-> summary.total_views + views,
     total_likes |-> summary.total_likes + likes,
     total_comments |-> summary.total_comments + comments,
     video_count |-> summary.video_count + 1]

RECURSIVE ItemLoop(_, _, _, _)
ItemLoop(rawItems, region, items, summary) ==
    IF rawItems = <<>> THEN [raised |-> FALSE, items |-> items, summary |-> summary]
    ELSE LET item == Head(rawItems)
             stats == Get(item, "statistics", EmptyDict)
             v == CountOf(stats, "viewCount")
             l == CountOf(stats, "likeCount")
             c == CountOf(stats, "commentCount")
         IN  IF ~(v.ok /\ l.ok /\ c.ok)
             THEN [raised |-> TRUE, items |-> items, summary |-> summary]
             ELSE ItemLoop(Tail(rawItems), region,
                           Append(items, NormaliseItem(item, region, v.val, l.val, c.val)),
                           AccumulateStats(summary, v.val, l.val, c.val))

\* avg_* are floating-point quotients; kept as the exact pair (sum, count).
WithAverages(summary) ==
    IF summary.video_count > 0
    THEN [total_views |-> summary.total_views,
          total_likes |-> summary.total_likes,
          total_comments |-> summary.total_comments,
          video_count |-> summary.video_count,
          avg_views |-> <<summary.total_views, summary.video_count>>,
          avg_likes |-> <<summary.total_likes, summary.video_count>>,
          avg_comments |-> <<summary.total_comments, summary.video_count>>]
    ELSE summary

NoError == [exc |-> "none"]

Raised(reqs, err) ==
    [outcome |-> "error", videos |-> <<>>, stats |-> EmptyDict, reqs |-> reqs, err |-> err]

Returned(reqs, videos, stats) ==
    [outcome |-> "ok", videos |-> videos, stats |-> stats, reqs |-> reqs, err |-> NoError]

SearchError(resp) ==
    [exc |-> "RuntimeError", label |-> "search API error", text |-> resp.text]

DetailsError(resp) ==
    [exc |-> "RuntimeError", label |-> "YouTube API error",
     status |-> resp.status_code,
     payload |-> IF resp.json.ok THEN resp.json.body ELSE [message |-> resp.text]]

\* Lines 148-207: the details request and everything after it.
DetailsPart(region, reqsBefore, dResp) ==
    LET reqs == Append(reqsBefore, "details") IN
    IF dResp.kind = "neterr" THEN Raised(reqs, [exc |-> "RequestException"])
    ELSE IF dResp.status_code # HTTP_OK THEN Raised(reqs, DetailsError(dResp))
    ELSE IF ~dResp.json.ok THEN Raised(reqs, [exc |-> "JSONDecodeError"])
    ELSE LET loop == ItemLoop(Get(dResp.json.body, "items", <<>>), region,
                              <<>>, InitialStatsSummary)
         IN  IF loop.raised THEN Raised(reqs, [exc |-> "ValueError"])
             ELSE Returned(reqs, loop.items, WithAverages(loop.summary))

\* [item['id']['videoId'] for item in search_resp.json().get('items', [])]
video_ids(sResp) ==
    LET found == Get(sResp.json.body, "items", <<>>)
    IN  [i \in 1..Len(found) |-> found[i].id.videoId]

\* Mutant: no early return when the search finds nothing.
fetch_popular_videos_no_early_return(api_key, region, max_results, query, sResp, dResp) ==
    IF query # ""
    THEN IF sResp.kind = "neterr" THEN Raised(<<"search">>, [exc |-> "RequestException"])
         ELSE IF sResp.status_code # HTTP_OK THEN Raised(<<"search">>, SearchError(sResp))
         ELSE IF ~sResp.json.ok THEN Raised(<<"search">>, [exc |-> "JSONDecodeError"])
         ELSE DetailsPart(region, <<"search">>, dResp)
    ELSE DetailsPart(region, <<>>, dResp)

\* sResp and dResp are what the API answers to the search request and to the
\* details request, if the function gets to issue them.
fetch_popular_videos(api_key, region, max_results, query, sResp, dResp) ==
    IF query # ""
    THEN IF sResp.kind = "neterr" THEN Raised(<<"search">>, [exc |-> "RequestException"])
         ELSE IF sResp.status_code # HTTP_OK THEN Raised(<<"search">>, SearchError(sResp))
         ELSE IF ~sResp.json.ok THEN Raised(<<"search">>, [exc |-> "JSONDecodeError"])
         ELSE IF video_ids(sResp) = <<>>
              THEN Returned(<<"search">>, <<>>, EmptyDict)
         ELSE DetailsPart(region, <<"search">>, dResp)
    ELSE DetailsPart(region, <<>>, dResp)

-----------------------------------------------------------------------------
(* What the API may answer *)

NetErr == [kind |-> "neterr"]

HttpJson(status, body, text) ==
    [kind |-> "http", status_code |-> status,
     json |-> [ok |-> TRUE, body |-> body], text |-> text]

HttpText(status, text) ==
    [kind |-> "http", status_code |-> status,
     json |-> [ok |-> FALSE, body |-> EmptyDict], text |-> text]

QuotaBody == [error |-> "quotaExceeded"]

ErrorResponses ==
    {NetErr,
     HttpJson(403, QuotaBody, "{error: quotaExceeded}"),
     HttpText(500, "Internal Server Error")}

SearchResponses ==
    ErrorResponses \cup
    {HttpJson(200, [items |-> <<>>], "{items: []}"),
     HttpJson(200, EmptyDict, "{}"),
     HttpJson(200, [items |-> <<[id |-> [videoId |-> "v1"]], [id |-> [videoId |-> "v2"]]>>],
              "{items: [v1, v2]}")}

RawItems ==
    {[id |-> "v1",
      snippet |-> [title |-> "T1", channelTitle |-> "Ch1", publishedAt |-> 2,
                   thumbnails |-> [high |-> [url |-> "h1"], default |-> [url |-> "d1"]]],
      statistics |-> [viewCount |-> <<"1", "0", "0">>, likeCount |-> <<"7">>,
                      commentCount |-> <<"3">>]],
     [id |-> "v2",
      snippet |-> [title |-> "T2", publishedAt |-> 1,
                   thumbnails |-> [medium |-> [url |-> "m2"], default |-> [url |-> "d2"]]],
      statistics |-> [viewCount |-> <<"5", "0", "0">>, likeCount |-> <<"7">>]],
     [id |-> "v3",
      snippet |-> [channelTitle |-> "Ch3", thumbnails |-> EmptyDict],
      statistics |-> [viewCount |-> <<"1", "0", "0">>, commentCount |-> <<"3">>]],
     [id |-> "v4"],
     [id |-> "v5",
      snippet |-> [title |-> "T5", channelTitle |-> "Ch5", publishedAt |-> 3],
      statistics |-> [viewCount |-> <<"a", "b", "c">>, likeCount |-> <<"1">>,
                      commentCount |-> <<"2">>]],
     [id |-> "v6",
      snippet |-> [title |-> "T6", channelTitle |-> "Ch6", publishedAt |-> 3],
      statistics |-> [viewCount |-> <<"4">>, likeCount |-> <<"-", "2">>,
                      commentCount |-> <<>>]]}

SeqsUpTo(S, n) == UNION {[1..m -> S] : m \in 0..n}

DetailsResponses ==
    ErrorResponses \cup
    {HttpJson(200, EmptyDict, "{}")} \cup
    {HttpJson(200, [items |-> its], "{items: ...}") : its \in SeqsUpTo(RawItems, MaxItems)}

Regions == {"KR", "US"}
Queries == {"", "cat"}

-----------------------------------------------------------------------------
(* The cache that @st.cache_data(ttl=300) puts in front of the function *)

Args(api_key, region, max_results, query, refresh_key) ==
    [api_key |-> api_key, region |-> region, max_results |-> max_results,
     search_query |-> query, refresh_key |-> refresh_key]

\* Mutant: refresh_key is left out of the cache key.
CacheKey_no_token(args) == [args EXCEPT !.refresh_key = 0]

\* The cache key is made of all the arguments, refresh_key included.
CacheKey(args) == args

\* Mutant: entries expire after half the ttl.
Fresh_half(created, t) == 2 * (t - created) < TTL

\* An entry is served while it is younger than ttl; its age counts from the
\* time it was stored and reading it does not renew it.
Fresh(created, t) == t - created < TTL

Live(entries, t) == {e \in entries : Fresh(e.created, t)}

Lookup(entries, key) == {e \in entries : e.key = key}

\* Mutant: a failed call is stored like an empty result.
Store_always(entries, key, t, r) ==
    {e \in entries : e.key # key} \cup
    {[key |-> key, created |-> t, value |-> [videos |-> r.videos, stats |-> r.stats]]}

\* Only a return value is stored; a raised exception stores nothing.
Store(entries, key, t, r) ==
    IF r.outcome = "ok"
    THEN {e \in entries : e.key # key} \cup
         {[key |-> key, created |-> t, value |-> [videos |-> r.videos, stats |-> r.stats]]}
    ELSE entries

CachedFetch(entries, t, args, sResp, dResp) ==
    LET live == Live(entries, t)
        found == Lookup(live, CacheKey(args))
    IN  IF found # {}
        THEN LET e == CHOOSE e \in found : TRUE
             IN  [hit |-> TRUE, cache |-> live,
                  result |-> Returned(<<>>, e.value.videos, e.value.stats)]
        ELSE LET r == fetch_popular_videos(args.api_key, args.region, args.max_results,
                                           args.search_query, sResp, dResp)
             IN  [hit |-> FALSE, cache |-> Store(live, CacheKey(args), t, r), result |-> r]

-----------------------------------------------------------------------------
(* display_videos: sorted(videos, key=..., reverse=not ascending) *)

sort_options ==
    [views |-> <<"views", FALSE>>,
     likes |-> <<"likes", FALSE>>,
     comments |-> <<"comments", FALSE>>,
     newest |-> <<"publishedAt", FALSE>>,
     oldest |-> <<"publishedAt", TRUE>>]

\* Mutant: equal keys swap.
Before_or_equal(a, b, reverse) == IF reverse THEN a >= b ELSE a <= b

\* Before(a, b): a must come before b.  With reverse=True the larger key comes
\* first; equal keys never swap (sorted is stable, also under reverse).
Before(a, b, reverse) == IF reverse THEN a > b ELSE a < b

\* Stable insertion of index i into the already ordered index list perm.
RECURSIVE InsertStable(_, _, _, _)
InsertStable(perm, i, keys, reverse) ==
    IF perm = <<>> THEN <<i>>
    ELSE IF Before(keys[i], keys[Head(perm)], reverse)
         THEN <<i>> \o perm
         ELSE <<Head(perm)>> \o InsertStable(Tail(perm), i, keys, reverse)

RECURSIVE SortPerm(_, _, _)
SortPerm(n, keys, reverse) ==
    IF n = 0 THEN <<>>
    ELSE InsertStable(SortPerm(n - 1, keys, reverse), n, keys, reverse)

\* The permutation sorted() applies: position p of the output holds
\* videos[SortedOrder(videos, sort_by)[p]].
SortedOrder(videos, by) ==
    LET opt == Get(sort_options, by, <<"views", FALSE>>)
        keys == [i \in 1..Len(videos) |-> videos[i][opt[1]]]
    IN  SortPerm(Len(videos), keys, ~opt[2])

display_videos(videos, by) ==
    LET perm == SortedOrder(videos, by)
    IN  [p \in 1..Len(videos) |-> videos[perm[p]]]

-----------------------------------------------------------------------------
(* The script: the sidebar widgets, then main *)

MAX_SELECTIONS == 3

CountrySelections ==
    {cs \in SeqsUpTo(Regions, Cardinality(Regions)) :
        /\ Len(cs) <= MAX_SELECTIONS
        /\ \A i, j \in 1..Len(cs) : i # j => cs[i] # cs[j]}

ConfigError == "YOUTUBE_API_KEY is not set"
LoadError == "error while loading the data"
NoVideosWarning == "no videos to display"

NoHist == [called |-> FALSE]
NoCall == [outcome |-> "none"]

\* Mutant: the credential is never checked.
KeyMissing_never(k) == FALSE

\* if not API_KEY
KeyMissing(k) == k = ""

AppSearchResponses ==
    {HttpJson(403, QuotaBody, "{error: quotaExceeded}"),
     HttpJson(200, [items |-> <<[id |-> [videoId |-> "v1"]]>>], "{items: [v1]}")}

AppDetailsResponses ==
    {NetErr,
     HttpText(500, "Internal Server Error"),
     HttpJson(200, [items |-> <<CHOOSE it \in RawItems : it.id = "v1">>], "{items: [v1]}"),
     HttpJson(200, [items |-> <<CHOOSE it \in RawItems : it.id = "v2">>], "{items: [v2]}")}

RunSearchResponses ==
    {HttpJson(200, [items |-> <<>>], "{items: []}"),
     HttpJson(200, [items |-> <<[id |-> [videoId |-> "v1"]]>>], "{items: [v1]}")}

RunDetailsResponses ==
    {HttpJson(200, [items |-> its], "{items: ...}") :
        its \in SeqsUpTo({it \in RawItems : it.id \in {"v1", "v2", "v3"}}, MaxItems)}

\* Every interaction with a widget re-runs the script from the top; what the
\* previous run rendered and its locals are gone.
StartRun ==
    /\ pc = "idle"
    /\ runs < MaxRuns
    /\ runs' = runs + 1
    /\ pc' = "start"
    /\ idx' = 1
    /\ all_videos' = <<>>
    /\ stats_data' = EmptyDict
    /\ sorted_videos' = <<>>
    /\ messages' = <<>>
    /\ runCalls' = 0
    /\ lastCall' = NoCall
    /\ UNCHANGED <<API_KEY, now, cache, sort_by, fIn, fOut>>

\* Time passes between runs; a run (at most a few requests, each with a
\* 15 s timeout) is short against TickStep.
Tick ==
    /\ pc = "idle"
    /\ now + TickStep <= MaxTime
    /\ now' = now + TickStep
    /\ UNCHANGED <<API_KEY, refresh_ts, search_query, selected_countries, sort_by,
                   cache, pc, idx, all_videos, stats_data, sorted_videos, messages,
                   runCalls, lastCall, hist, runs, fIn, fOut>>

\* The history of calls made with a refresh_key other than the current one is
\* dropped: the clock never goes back, so those arguments never recur.
Forget(h, token) == [a \in {b \in DOMAIN h : b.refresh_key = token} |-> h[a]]

\* The refresh button: _refresh_ts = time.time(), then st.rerun().
Refresh ==
    /\ StartRun
    /\ refresh_ts' = now
    /\ hist' = Forget(hist, now)
    /\ UNCHANGED <<search_query, selected_countries>>

SetQuery ==
    /\ StartRun
    /\ \E q \in Queries : q # search_query /\ search_query' = q
    /\ UNCHANGED <<refresh_ts, selected_countries, hist>>

SelectCountries ==
    /\ StartRun
    /\ \E cs \in CountrySelections : cs # selected_countries /\ selected_countries' = cs
    /\ UNCHANGED <<refresh_ts, search_query, hist>>

\* Any other interaction (a save button, a history button): a plain re-run.
Rerun ==
    /\ StartRun
    /\ UNCHANGED <<refresh_ts, search_query, selected_countries, hist>>

\* main() up to the for loop.
MainStart ==
    /\ pc = "start"
    /\ IF KeyMissing(API_KEY)
       THEN /\ messages' = <<ConfigError>>
            /\ pc' = "idle"
            /\ UNCHANGED <<all_videos, stats_data, idx>>
       ELSE /\ messages' = <<>>
            /\ all_videos' = <<>>
            /\ stats_data' = EmptyDict
            /\ idx' = 1
            /\ pc' = "loop"
    /\ UNCHANGED <<API_KEY, now, refresh_ts, search_query, selected_countries, sort_by,
                   cache, sorted_videos, runCalls, lastCall, hist, runs, fIn, fOut>>

\* for video in videos: video["region"] = country; all_videos.append(video)
Tagged(videos, country) ==
    [i \in 1..Len(videos) |-> [videos[i] EXCEPT !.region = country]]

\* if stats: stats_data[country] = stats
WithStats(data, country, stats) ==
    IF Truthy(stats)
    THEN [c \in DOMAIN data \cup {country} |-> IF c = country THEN stats ELSE data[c]]
    ELSE data

HistAfter(prev, t, hit, r) ==
    LET value == [videos |-> r.videos, stats |-> r.stats]
        ok == r.outcome = "ok"
    IN  [called |-> TRUE,
         outcome |-> r.outcome,
         succT |-> IF ok THEN t ELSE Get(prev, "succT", -1),
         succValue |-> IF ok THEN value ELSE Get(prev, "succValue", EmptyDict),
         compT |-> IF ok /\ ~hit THEN t ELSE Get(prev, "compT", -1),
         compValue |-> IF ok /\ ~hit THEN value ELSE Get(prev, "compValue", EmptyDict)]

\* One iteration of main's for loop: the cached call, then the bookkeeping;
\* an exception leaves the loop for the except clause.
FetchCountryWith(SR, DR) ==
    /\ pc = "loop"
    /\ idx <= Len(selected_countries)
    /\ \E sResp \in SR, dResp \in DR :
         LET country == selected_countries[idx]
             args == Args(API_KEY, country, MAX_RESULTS, search_query, refresh_ts)
             prev == Get(hist, args, NoHist)
             c == CachedFetch(cache, now, args, sResp, dResp)
             r == c.result
         IN  /\ cache' = c.cache
             /\ runCalls' = runCalls + Len(r.reqs)
             /\ lastCall' = [args |-> args, time |-> now, outcome |-> r.outcome,
                             value |-> [videos |-> r.videos, stats |-> r.stats],
                             reqs |-> r.reqs, prev |-> prev,
                             siblingLive |->
                                 \E e \in Live(cache, now) :
                                     /\ e.key # CacheKey(args)
                                     /\ [e.key EXCEPT !.refresh_key = args.refresh_key] = args]
             /\ hist' = [a \in DOMAIN hist \cup {args} |->
                            IF a = args THEN HistAfter(prev, now, c.hit, r) ELSE hist[a]]
             /\ IF r.outcome = "ok"
                THEN /\ stats_data' = WithStats(stats_data, country, r.stats)
                     /\ all_videos' = all_videos \o Tagged(r.videos, country)
                     /\ idx' = idx + 1
                     /\ UNCHANGED <<pc, messages>>
                ELSE /\ messages' = Append(messages, LoadError)
                     /\ pc' = "idle"
                     /\ UNCHANGED <<stats_data, all_videos, idx>>
    /\ UNCHANGED <<API_KEY, now, refresh_ts, search_query, selected_countries, sort_by,
                   sorted_videos, runs, fIn, fOut>>

FetchCountry == FetchCountryWith(AppSearchResponses, AppDetailsResponses)

\* After the loop: display_videos(all_videos, sort_by).
DisplayVideos ==
    /\ pc = "loop"
    /\ idx > Len(selected_countries)
    /\ IF all_videos = <<>>
       THEN /\ messages' = Append(messages, NoVideosWarning)
            /\ UNCHANGED sorted_videos
       ELSE /\ sorted_videos' = display_videos(all_videos, sort_by)
            /\ UNCHANGED messages
    /\ pc' = "idle"
    /\ UNCHANGED <<API_KEY, now, refresh_ts, search_query, selected_countries, sort_by,
                   cache, idx, all_videos, stats_data, runCalls, lastCall, hist, runs, fIn, fOut>>

NoInput == [region |-> "none"]

Init ==
    /\ API_KEY \in {"", "key"}
    /\ now = TickStep
    /\ refresh_ts = 0
    /\ search_query = ""
    /\ selected_countries = <<"US">>
    /\ sort_by = "views"
    /\ cache = {}
    /\ pc = "start"
    /\ idx = 1
    /\ all_videos = <<>>
    /\ stats_data = EmptyDict
    /\ sorted_videos = <<>>
    /\ messages = <<>>
    /\ runCalls = 0
    /\ lastCall = NoCall
    /\ hist = EmptyDict
    /\ runs = 1
    /\ fIn = NoInput
    /\ fOut = NoCall

Next ==
    \/ Tick
    \/ Refresh
    \/ SetQuery
    \/ SelectCountries
    \/ Rerun
    \/ MainStart
    \/ FetchCountry
    \/ DisplayVideos

Spec == Init /\ [][Next]_vars

-----------------------------------------------------------------------------
(* One run of main from any state of the widgets: SpecRun *)

FetchCountryInRun == FetchCountryWith(RunSearchResponses, RunDetailsResponses)

RunInit ==
    /\ API_KEY = "key"
    /\ now = TickStep
    /\ refresh_ts = 0
    /\ search_query \in Queries
    /\ selected_countries \in CountrySelections
    /\ sort_by \in DOMAIN sort_options
    /\ cache = {}
    /\ pc = "start"
    /\ idx = 1
    /\ all_videos = <<>>
    /\ stats_data = EmptyDict
    /\ sorted_videos = <<>>
    /\ messages = <<>>
    /\ runCalls = 0
    /\ lastCall = NoCall
    /\ hist = EmptyDict
    /\ runs = 1
    /\ fIn = NoInput
    /\ fOut = NoCall

RunNext ==
    \/ MainStart
    \/ FetchCountryInRun
    \/ DisplayVideos

SpecRun == RunInit /\ [][RunNext]_vars

-----------------------------------------------------------------------------
(* Direct calls of the function: SpecFetch *)

FetchInit ==
    /\ API_KEY = "key"
    /\ now = TickStep
    /\ refresh_ts = 0
    /\ search_query = ""
    /\ selected_countries = <<"US">>
    /\ sort_by = "views"
    /\ cache = {}
    /\ pc = "idle"
    /\ idx = 1
    /\ all_videos = <<>>
    /\ stats_data = EmptyDict
    /\ sorted_videos = <<>>
    /\ messages = <<>>
    /\ runCalls = 0
    /\ lastCall = NoCall
    /\ hist = EmptyDict
    /\ runs = 1
    /\ fIn \in [region : Regions, query : Queries,
                sResp : SearchResponses, dResp : DetailsResponses]
    /\ fOut = NoCall

FetchCall ==
    /\ fOut = NoCall
    /\ fOut' = fetch_popular_videos(API_KEY, fIn.region, MAX_RESULTS, fIn.query,
                                    fIn.sResp, fIn.dResp)
    /\ UNCHANGED <<fIn, sort_by>>
    /\ UNCHANGED appVars

FetchNext == FetchCall

SpecFetch == FetchInit /\ [][FetchNext]_vars

-----------------------------------------------------------------------------
(* Properties *)

Called == lastCall.outcome # "none"

PrevCalled == Called /\ lastCall.prev.called

\* C1, as stated: a call whose arguments equal those of an earlier successful
\* call made less than 300 seconds before returns the earlier result and
\* issues no HTTP request.
C1_AnyEarlierSuccessWithinTTL ==
    (PrevCalled /\ lastCall.prev.succT >= 0 /\ lastCall.time - lastCall.prev.succT < TTL)
        => /\ lastCall.reqs = <<>>
           /\ lastCall.outcome = "ok"
           /\ lastCall.value = lastCall.prev.succValue

\* C1, amended: a call whose arguments equal those of an earlier call that
\* computed its result (missed the cache and succeeded) less than 300 seconds
\* before returns that result and issues no HTTP request.
C1_CacheIdempotence ==
    (PrevCalled /\ lastCall.prev.compT >= 0 /\ lastCall.time - lastCall.prev.compT < TTL)
        => /\ lastCall.reqs = <<>>
           /\ lastCall.outcome = "ok"
           /\ lastCall.value = lastCall.prev.compValue

C1_Witness ==
    /\ PrevCalled
    /\ lastCall.prev.compT >= 0
    /\ lastCall.time > lastCall.prev.compT
    /\ lastCall.time - lastCall.prev.compT < TTL
    /\ lastCall.reqs = <<>>
    /\ lastCall.value.videos # <<>>

\* C2: a call made with a refresh_key that no earlier call with these
\* arguments used issues at least one HTTP request, also while an entry for
\* the same other arguments is inside its ttl.
C2_CacheBypass ==
    (Called /\ ~lastCall.prev.called) => lastCall.reqs # <<>>

C2_Witness ==
    /\ Called
    /\ ~lastCall.prev.called
    /\ lastCall.siblingLive
    /\ lastCall.args.refresh_key = lastCall.time
    /\ lastCall.reqs # <<>>

\* C3: a call that ends in an error leaves no cache entry for its key, and the
\* next call with the same arguments issues HTTP requests again.
C3_FailureNotCached ==
    /\ (Called /\ lastCall.outcome = "error")
           => Lookup(cache, CacheKey(lastCall.args)) = {}
    /\ (PrevCalled /\ lastCall.prev.outcome = "error") => lastCall.reqs # <<>>

C3_Witness ==
    /\ PrevCalled
    /\ lastCall.prev.outcome = "error"
    /\ lastCall.outcome = "ok"
    /\ lastCall.reqs = <<"search", "details">>

SearchFoundNothing ==
    /\ fIn.query # ""
    /\ fIn.sResp.kind = "http"
    /\ fIn.sResp.status_code = HTTP_OK
    /\ fIn.sResp.json.ok
    /\ video_ids(fIn.sResp) = <<>>

\* C4: a non-empty query whose search succeeds with no video identifiers
\* returns ([], {}) and issues no details request.
C4_ZeroMatches ==
    (fOut # NoCall /\ SearchFoundNothing)
        => /\ fOut.outcome = "ok"
           /\ fOut.videos = <<>>
           /\ fOut.stats = EmptyDict
           /\ fOut.reqs = <<"search">>

C4_Witness ==
    /\ fOut # NoCall
    /\ SearchFoundNothing
    /\ fIn.dResp.kind = "http"
    /\ fIn.dResp.status_code = HTTP_OK
    /\ Len(Get(fIn.dResp.json.body, "items", <<>>)) = MaxItems

Non2xx(resp) == resp.kind = "http" /\ resp.status_code \notin 200..299

\* The error names the HTTP status and carries the payload: the parsed JSON
\* body, or the raw text.
ErrorCarries(err, resp) ==
    /\ "status" \in DOMAIN err
    /\ err.status = resp.status_code
    /\ \/ "payload" \in DOMAIN err /\ resp.json.ok /\ err.payload = resp.json.body
       \/ "payload" \in DOMAIN err /\ ~resp.json.ok /\ err.payload = [message |-> resp.text]
       \/ "text" \in DOMAIN err /\ err.text = resp.text

\* C5: on a non-2xx answer to the search request or to the details request
\* the call fails at once, with an error that contains the HTTP status code
\* and the error payload, and issues no further request.
C5_Non2xxError ==
    /\ (fOut # NoCall /\ fIn.query # "" /\ Non2xx(fIn.sResp))
           => /\ fOut.outcome = "error"
              /\ fOut.reqs = <<"search">>
              /\ ErrorCarries(fOut.err, fIn.sResp)
    /\ (fOut # NoCall /\ fOut.reqs # <<>> /\ fOut.reqs[Len(fOut.reqs)] = "details"
                      /\ Non2xx(fIn.dResp))
           => /\ fOut.outcome = "error"
              /\ ErrorCarries(fOut.err, fIn.dResp)

RECURSIVE SumOf(_, _)
SumOf(videos, field) ==
    IF videos = <<>> THEN 0 ELSE Head(videos)[field] + SumOf(Tail(videos), field)

\* C6: a successful fetch with a non-empty result returns stats whose totals
\* are the sums over the returned records and whose video_count is their
\* number.
C6_StatsAreSums ==
    (fOut # NoCall /\ fOut.outcome = "ok" /\ fOut.videos # <<>>)
        => /\ fOut.stats.total_views = SumOf(fOut.videos, "views")
           /\ fOut.stats.total_likes = SumOf(fOut.videos, "likes")
           /\ fOut.stats.total_comments = SumOf(fOut.videos, "comments")
           /\ fOut.stats.video_count = Len(fOut.videos)

C6_Witness ==
    /\ fOut # NoCall
    /\ fOut.outcome = "ok"
    /\ Len(fOut.videos) = MaxItems
    /\ fOut.stats.total_views > fOut.stats.total_likes
    /\ fOut.stats.total_likes > fOut.stats.total_comments
    /\ fOut.stats.total_comments > 0

DetailsAnswered ==
    /\ fOut # NoCall
    /\ fOut.reqs # <<>>
    /\ fOut.reqs[Len(fOut.reqs)] = "details"
    /\ fIn.dResp.kind = "http"
    /\ fIn.dResp.status_code = HTTP_OK
    /\ fIn.dResp.json.ok

Numeric(stats, k) == k \in DOMAIN stats /\ PyInt(stats[k]).ok

NormalisedCount(item, k, n) ==
    /\ n >= 0
    /\ ~Numeric(Get(item, "statistics", EmptyDict), k) => n = 0

\* C7: every item of a details response gets non-negative view, like and
\* comment counts, 0 where the field is missing or not numeric, and an
\* unparsable count never makes the fetch fail.
C7_CountsNormalised ==
    DetailsAnswered
        => LET raw == Get(fIn.dResp.json.body, "items", <<>>)
           IN  /\ fOut.outcome = "ok"
               /\ Len(fOut.videos) = Len(raw)
               /\ \A i \in 1..Len(raw) :
                      /\ NormalisedCount(raw[i], "viewCount", fOut.videos[i].views)
                      /\ NormalisedCount(raw[i], "likeCount", fOut.videos[i].likes)
                      /\ NormalisedCount(raw[i], "commentCount", fOut.videos[i].comments)

\* C8: a fetch that returns no videos returns the empty stats object, and the
\* loop of main adds no entry for its region to stats_data.
C8_EmptyVideosEmptyStats ==
    (Called /\ lastCall.outcome = "ok" /\ lastCall.value.videos = <<>>)
        => /\ lastCall.value.stats = EmptyDict
           /\ lastCall.args.region \notin DOMAIN stats_data

SortKeyOf(by) == sort_options[by][1]

\* C9: sorting the concatenated list by views, likes or comments gives a
\* permutation of it with non-increasing keys in which records with equal
\* keys keep their order in the concatenated list.
C9_SortStableDescending ==
    (sorted_videos # <<>> /\ sort_by \in {"views", "likes", "comments"})
        => LET n == Len(all_videos)
               perm == SortedOrder(all_videos, sort_by)
               k == SortKeyOf(sort_by)
           IN  /\ Len(sorted_videos) = n
               /\ Len(perm) = n
               /\ {perm[p] : p \in 1..n} = 1..n
               /\ \A p \in 1..n : sorted_videos[p] = all_videos[perm[p]]
               /\ \A p, q \in 1..n :
                      p < q => /\ sorted_videos[p][k] >= sorted_videos[q][k]
                               /\ sorted_videos[p][k] = sorted_videos[q][k]
                                      => perm[p] < perm[q]

C9_Witness ==
    /\ sorted_videos # <<>>
    /\ sort_by = "views"
    /\ Len(all_videos) >= 3
    /\ \E i, j \in 1..Len(all_videos) :
          /\ i < j
          /\ all_videos[i].views = all_videos[j].views
          /\ all_videos[i].region # all_videos[j].region
    /\ \E i, j \in 1..Len(all_videos) :
          i < j /\ all_videos[i].views < all_videos[j].views

\* C10: while the API key is missing no cached fetch is called and no HTTP
\* request is issued for any selected region, and a finished run has reported
\* exactly the configuration error.
C10_MissingKeyNoRequest ==
    API_KEY = ""
        => /\ runCalls = 0
           /\ ~Called
           /\ cache = {}
           /\ pc # "loop"
           /\ pc = "idle" => messages = <<ConfigError>>

C10_Witness ==
    /\ API_KEY = ""
    /\ pc = "idle"
    /\ Len(selected_countries) >= 2
    /\ refresh_ts > 0
    /\ messages = <<ConfigError>>

====
